---- MODULE Spec2Model ----
(***************************************************************************)
(* Query execution core of the Firestore client (src/db/query.rs):         *)
(* the retrying executors, the document stream adapters, the cursor        *)
(* pagination stream and the partitioned query orchestrator.               *)
(*                                                                         *)
(* Spec      one logical call of query_doc, of a stream_query_* entry      *)
(*           point or of stream_partition_cursors_with_errors against a    *)
(*           scripted server.                                              *)
(* PartSpec  one call of stream_partition_query_obj_with_errors, and with  *)
(*           it of stream_partition_query_doc_with_errors.                 *)
(* AllSpec   a call of any of these entry points.                          *)
(* PartFairSpec  PartSpec under a fair executor, server and consumer.      *)
(* DropSpec  PartSpec with a caller that may drop the merged stream.       *)
(***************************************************************************)
EXTENDS Integers, Sequences, FiniteSets, TLC

\* ------------------------------------------------------------------ bounds
MaxRetries == 1        \* options.max_retries ranges over 0..MaxRetries
MaxStreamLen == 3      \* page entries in one run-query response stream
MaxParallelism == 2    \* the parallelism argument ranges over 0..MaxParallelism
MaxPages == 2          \* partition-query pages the server answers with
MaxCursors == 2        \* cursors over all pages (MaxCursors + 1 ranges)
MaxEntries == 3        \* page entries over all the range sub-queries of a call

\* ------------------------------------------------------------- the values
\* FirestoreError: its kind, the retry flag of a DatabaseError, and where it
\* was raised (src, n) so that two errors are told apart.
Err(kind, retry, src, n) ==
    [kind |-> kind, retry_possible |-> retry, src |-> src, n |-> n]

NoError == Err("none", FALSE, "none", 0)

\* What the server does with one run_query invocation.
Outcomes == {"ok", "db_retry", "db_fatal", "other"}

\* The FirestoreError that run_query(..).map_err(|e| e.into()) yields on
\* invocation n with outcome o.
RpcError(o, n) ==
    CASE o = "db_retry" -> Err("DatabaseError", TRUE, "rpc", n)
      [] o = "db_fatal" -> Err("DatabaseError", FALSE, "rpc", n)
      [] OTHER          -> Err("SystemError", FALSE, "rpc", n)

\* A page entry of a response stream: FirestoreResult<Option<Document>>.
\* The j-th entry carries document j, no document, or item error j.
EntryKinds == {"Some", "None", "ErrRetry", "ErrFatal"}

Entry(k, j) ==
    CASE k = "Some"     -> [tag |-> "Some", doc |-> j, err |-> NoError]
      [] k = "None"     -> [tag |-> "None", doc |-> 0, err |-> NoError]
      [] k = "ErrRetry" -> [tag |-> "Err", doc |-> 0,
                            err |-> Err("DatabaseError", TRUE, "item", j)]
      [] OTHER          -> [tag |-> "Err", doc |-> 0,
                            err |-> Err("DatabaseError", FALSE, "item", j)]

SeqsUpTo(S, n) == UNION {[1..m -> S] : m \in 0..n}

ResponseStreams ==
    {[j \in 1..Len(ks) |-> Entry(ks[j], j)] : ks \in SeqsUpTo(EntryKinds, MaxStreamLen)}

\* Elements of the adapters' output sequences.
OkDoc(d)   == [tag |-> "Ok", doc |-> d, err |-> NoError]
ErrItem(e) == [tag |-> "Err", doc |-> 0, err |-> e]

\* The entry points that run a query, those of them that return a stream,
\* the typed-object ones, and the cursor pagination stream.
StreamApis == {"stream_query_doc", "stream_query_doc_with_errors",
               "stream_query_obj", "stream_query_obj_with_errors"}
RunQueryApis == {"query_doc"} \cup StreamApis
ObjApis == {"stream_query_obj", "stream_query_obj_with_errors"}
CursorApi == "stream_partition_cursors_with_errors"

Apis == RunQueryApis \cup {CursorApi}

\* The type T of a typed-object call, by the documents that deserialize into
\* it: all of them, those with an odd or an even number, none.
Schemas == {"all", "odd", "even", "none"}

Fits(sch, j) ==
    CASE sch = "all"  -> TRUE
      [] sch = "odd"  -> j % 2 = 1
      [] sch = "even" -> j % 2 = 0
      [] OTHER        -> FALSE

\* ------------------------------------------------------------------ state
VARIABLES
    api,            \* the entry point of the logical call
    selector_ok,    \* session_params.consistency_selector can be encoded
    max_retries,    \* self.options.max_retries
    plan,           \* plan[n]: what the server does with the n-th run_query
    pc,             \* "attempt", "collect", "streaming", "done"
    retries,        \* the retries argument of the running *_with_retries
    rpc_calls,      \* run_query invocations issued so far
    established,    \* the invocation that returned a response (0: none)
    served,         \* the response stream of that invocation, whole
    query_stream,   \* its entries not yet pulled
    collected,      \* batch: the Vec<Option<Document>> of try_collect
    result,         \* what the call returned to its caller
    output,         \* streaming: the elements the consumer has received
    schema,         \* the type T of the typed-object entry points
    \* ---- stream_partition_cursors_with_errors
    page_token,     \* params.page_token as the caller gave it
    requests,       \* the page_token of each partition_query request sent
    responses,      \* the PartitionQueryResponse (or failure) of each
    page_buf,       \* flat_map: the items of the current page not yet emitted
    \* ---- stream_partition_query_doc_with_errors
    parallelism,    \* the parallelism argument
    part_selector_ok, \* the selector can be encoded for partition_query
    base,           \* partition_params.query_params
    ppc,            \* "discover", "fallback", "fallback_stream", "fanout",
                    \* "returned", "ended", "failed"
    unfold_state,   \* Some(params.page_token) or None: the state of the unfold
    cursors,        \* the cursors try_collect has collected
    cursors_pairs,  \* [None, c1, .., cn, None]
    workers,        \* workers[i]: the future of range i
    queue,          \* the unbounded channel: messages sent, not yet received
    issued,         \* the params of each stream_query_doc_with_errors call
    presult,        \* what the partitioned call returned
    merged,         \* the elements its stream has handed out
    typed,          \* stream_partition_query_obj_with_errors: the elements
                    \* the consumer of the typed stream has received
    fallback        \* the unpartitioned query of the fallback branch

execOnly == <<api, plan, pc, retries, rpc_calls, established, served,
              query_stream, collected, result, output>>

session == <<selector_ok, max_retries, schema>>

inputs == <<parallelism, part_selector_ok, base, page_token>>

cursorLog == <<requests, responses, page_buf>>

discovery == <<unfold_state, cursors>>

partVars == <<parallelism, part_selector_ok, base, page_token, ppc,
              unfold_state, cursors, cursors_pairs, workers, queue, issued,
              presult, merged, typed, fallback, cursorLog>>

vars == <<api, selector_ok, max_retries, plan, pc, retries, rpc_calls,
          established, served, query_stream, collected, result, output,
          partVars, schema>>

Pending      == [tag |-> "Pending", err |-> NoError, docs |-> <<>>]
ResErr(e)    == [tag |-> "Err", err |-> e, docs |-> <<>>]
ResStream    == [tag |-> "OkStream", err |-> NoError, docs |-> <<>>]
ResVec(ds)   == [tag |-> "OkVec", err |-> NoError, docs |-> ds]

ConfigError == Err("ConfigurationError", FALSE, "config", 0)

\* Option<T>.
None == <<>>
Some(x) == <<x>>

\* The bounds of a FirestoreQueryParams or of a FirestorePartition, and every
\* other field of the params as one opaque value.
Params(lo, hi) == [start_at |-> lo, end_at |-> hi, rest |-> "query"]
FirestorePartition_new == [start_at |-> None, end_at |-> None]

NoWorker ==
    [st |-> "none", retries |-> 0, params |-> Params(None, None),
     partition |-> FirestorePartition_new, served |-> <<>>, err |-> NoError]

\* The page_token a caller may put into the partition params: none, the
\* empty string, or a token of an earlier pagination.
PageTokens == {None, Some(<<>>), Some(<<0>>)}

\* No partitioned call is running.
PartIdle ==
    /\ parallelism = 0
    /\ base = Params(None, None)
    /\ ppc = "idle"
    /\ cursors = <<>>
    /\ cursors_pairs = <<>>
    /\ workers = <<>>
    /\ queue = <<>>
    /\ issued = <<>>
    /\ presult = Pending
    /\ merged = <<>>
    /\ typed = <<>>
    /\ fallback = NoWorker

Init ==
    /\ api \in Apis
    /\ selector_ok \in (IF api \in RunQueryApis THEN BOOLEAN ELSE {TRUE})
    /\ max_retries \in 0..MaxRetries
    /\ plan \in (IF api \in RunQueryApis
                 THEN [1..(MaxRetries + 2) -> Outcomes] ELSE {<<>>})
    /\ schema \in (IF api \in ObjApis THEN Schemas ELSE {"all"})
    /\ part_selector_ok \in (IF api = CursorApi THEN BOOLEAN ELSE {TRUE})
    /\ page_token \in (IF api = CursorApi THEN PageTokens ELSE {None})
    /\ unfold_state = (IF api = CursorApi THEN Some(page_token) ELSE None)
    /\ requests = <<>>
    /\ responses = <<>>
    /\ page_buf = <<>>
    /\ pc = "attempt"
    /\ retries = 0
    /\ rpc_calls = 0
    /\ established = 0
    /\ served = <<>>
    /\ query_stream = <<>>
    /\ collected = <<>>
    /\ result = Pending
    /\ output = <<>>
    /\ PartIdle

\* ------------------------------------------------------- retrying executor
\* The guard of the retry arm of stream_query_doc_with_retries.
StreamRetryGuard_NoCap(err, r, maxr) ==
    err.kind = "DatabaseError" /\ err.retry_possible

StreamRetryGuard_AnyError(err, r, maxr) ==
    r < maxr

StreamRetryGuard_OffByOne(err, r, maxr) ==
    err.kind = "DatabaseError" /\ err.retry_possible /\ r + 1 < maxr

StreamRetryGuard(err, r, maxr) ==
    err.kind = "DatabaseError" /\ err.retry_possible /\ r < maxr

\* The guard of the retry arm of query_doc_with_retries.
BatchRetryGuard_NoCap(err, r, maxr) ==
    err.kind = "DatabaseError" /\ err.retry_possible

BatchRetryGuard(err, r, maxr) ==
    err.kind = "DatabaseError" /\ err.retry_possible /\ r < maxr

\* create_query_request(&params): the request, or the error of the selector
\* that cannot be encoded (try_into()?).
create_query_request_Unchecked(sel_ok) == [ok |-> TRUE, err |-> NoError]

create_query_request(sel_ok) ==
    IF sel_ok THEN [ok |-> TRUE, err |-> NoError]
    ELSE [ok |-> FALSE, err |-> ConfigError]

\* create_query_request(..)? fails: the error leaves the executor at once.
create_query_request_fails ==
    /\ pc = "attempt"
    /\ api \in RunQueryApis
    /\ ~create_query_request(selector_ok).ok
    /\ result' = ResErr(create_query_request(selector_ok).err)
    /\ pc' = "done"
    /\ UNCHANGED <<api, selector_ok, max_retries, plan, retries, rpc_calls,
                   established, served, query_stream, collected, output, partVars, schema>>

\* One invocation of stream_query_doc_with_retries(params, retries, span).
stream_query_doc_with_retries ==
    /\ pc = "attempt"
    /\ api \in StreamApis
    /\ create_query_request(selector_ok).ok
    /\ rpc_calls < Len(plan)
    /\ rpc_calls' = rpc_calls + 1
    /\ LET n == rpc_calls + 1
           o == plan[n]
           err == RpcError(o, n)
       IN IF o = "ok"
          THEN /\ \E s \in ResponseStreams :
                    /\ served' = s
                    /\ query_stream' = s
               /\ established' = n
               /\ result' = ResStream
               /\ pc' = "streaming"
               /\ UNCHANGED retries
          ELSE IF StreamRetryGuard(err, retries, max_retries)
          THEN /\ retries' = retries + 1
               /\ UNCHANGED <<pc, result, established, served, query_stream>>
          ELSE /\ result' = ResErr(err)
               /\ pc' = "done"
               /\ UNCHANGED <<retries, established, served, query_stream>>
    /\ UNCHANGED <<api, selector_ok, max_retries, plan, collected, output,
                   partVars, schema>>

\* One invocation of query_doc_with_retries(params, retries, span), up to
\* the response of run_query.
query_doc_with_retries ==
    /\ pc = "attempt"
    /\ api = "query_doc"
    /\ create_query_request(selector_ok).ok
    /\ rpc_calls < Len(plan)
    /\ rpc_calls' = rpc_calls + 1
    /\ LET n == rpc_calls + 1
           o == plan[n]
           err == RpcError(o, n)
       IN IF o = "ok"
          THEN /\ \E s \in ResponseStreams :
                    /\ served' = s
                    /\ query_stream' = s
               /\ established' = n
               /\ pc' = "collect"
               /\ UNCHANGED <<retries, result>>
          ELSE IF BatchRetryGuard(err, retries, max_retries)
          THEN /\ retries' = retries + 1
               /\ UNCHANGED <<pc, result, established, served, query_stream>>
          ELSE /\ result' = ResErr(err)
               /\ pc' = "done"
               /\ UNCHANGED <<retries, established, served, query_stream>>
    /\ UNCHANGED <<api, selector_ok, max_retries, plan, collected, output,
                   partVars, schema>>

\* into_iter().flatten() over the collected Vec<Option<Document>>.
RECURSIVE Flatten(_)
Flatten(s) ==
    IF s = <<>> THEN <<>>
    ELSE IF Head(s).tag = "Some"
         THEN <<Head(s).doc>> \o Flatten(Tail(s))
         ELSE Flatten(Tail(s))

\* try_collect ends at an entry that is an error, whatever the error.
TryCollectStops_OnlyFatal(e) == e.tag = "Err" /\ ~e.err.retry_possible

TryCollectStops(e) == e.tag = "Err"

\* The ? after try_collect returns the error from the async block, inside
\* the Ok arm of the match: the retry arm never sees it.
DrainErrorRetried_AsRpcError(err, r, maxr) == BatchRetryGuard(err, r, maxr)

DrainErrorRetried(err, r, maxr) == FALSE

\* try_collect::<Vec<Option<Document>>>().await? : one poll of the response
\* stream; the first error entry ends the call with that error.
try_collect ==
    /\ pc = "collect"
    /\ IF query_stream = <<>>
       THEN /\ result' = ResVec(Flatten(collected))
            /\ pc' = "done"
            /\ UNCHANGED <<query_stream, collected, retries>>
       ELSE LET e == Head(query_stream)
            IN IF TryCollectStops(e)
               THEN IF DrainErrorRetried(e.err, retries, max_retries)
                    THEN /\ pc' = "attempt"
                         /\ retries' = retries + 1
                         /\ collected' = <<>>
                         /\ UNCHANGED <<query_stream, result>>
                    ELSE /\ result' = ResErr(e.err)
                         /\ pc' = "done"
                         /\ UNCHANGED <<query_stream, collected, retries>>
               ELSE /\ collected' = Append(collected, e)
                    /\ query_stream' = Tail(query_stream)
                    /\ UNCHANGED <<pc, result, retries>>
    /\ UNCHANGED <<api, selector_ok, max_retries, plan, rpc_calls,
                   established, served, output, partVars, schema>>

\* ------------------------------------------------- document stream adapters
\* The filter_map closure of stream_query_doc: what one entry contributes.
DropErrors_KeepsErr(e) ==
    CASE e.tag = "Some" -> <<OkDoc(e.doc)>>
      [] e.tag = "None" -> <<>>
      [] OTHER          -> <<ErrItem(e.err)>>

DropErrors(e) ==
    CASE e.tag = "Some" -> <<OkDoc(e.doc)>>
      [] e.tag = "None" -> <<>>
      [] OTHER          -> <<>>

\* The filter_map closure of stream_query_doc_with_errors.
SurfaceErrors_DropsErr(e) ==
    CASE e.tag = "Some" -> <<OkDoc(e.doc)>>
      [] e.tag = "None" -> <<>>
      [] OTHER          -> <<>>

SurfaceErrors(e) ==
    CASE e.tag = "Some" -> <<OkDoc(e.doc)>>
      [] e.tag = "None" -> <<>>
      [] OTHER          -> <<ErrItem(e.err)>>

\* The stream the executor returned is the response stream of the server
\* under map_ok and map_err: an entry is handed on as it is, no entry sends
\* the call back to the executor.
EntryRetried_IfEligible(e, r, maxr) ==
    e.tag = "Err" /\ e.err.retry_possible /\ r < maxr

EntryRetried(e, r, maxr) == FALSE

\* The consumer polls the stream returned by stream_query_doc once.
stream_query_doc ==
    /\ pc = "streaming"
    /\ api = "stream_query_doc"
    /\ IF query_stream = <<>>
       THEN /\ pc' = "done"
            /\ UNCHANGED <<query_stream, output, retries>>
       ELSE IF EntryRetried(Head(query_stream), retries, max_retries)
       THEN /\ pc' = "attempt"
            /\ retries' = retries + 1
            /\ UNCHANGED <<query_stream, output>>
       ELSE /\ output' = output \o DropErrors(Head(query_stream))
            /\ query_stream' = Tail(query_stream)
            /\ UNCHANGED <<pc, retries>>
    /\ UNCHANGED <<api, selector_ok, max_retries, plan, rpc_calls,
                   established, served, collected, result, partVars, schema>>

\* The consumer polls the stream returned by stream_query_doc_with_errors.
stream_query_doc_with_errors ==
    /\ pc = "streaming"
    /\ api = "stream_query_doc_with_errors"
    /\ IF query_stream = <<>>
       THEN /\ pc' = "done"
            /\ UNCHANGED <<query_stream, output, retries>>
       ELSE IF EntryRetried(Head(query_stream), retries, max_retries)
       THEN /\ pc' = "attempt"
            /\ retries' = retries + 1
            /\ UNCHANGED <<query_stream, output>>
       ELSE /\ output' = output \o SurfaceErrors(Head(query_stream))
            /\ query_stream' = Tail(query_stream)
            /\ UNCHANGED <<pc, retries>>
    /\ UNCHANGED <<api, selector_ok, max_retries, plan, rpc_calls,
                   established, served, collected, result, partVars, schema>>

\* ---------------------------------------------------- typed-object streams
\* Self::deserialize_doc_to::<T>(&doc): the object of the document, or the
\* error of the deserializer when the document does not fit T.
DeserializeError(d) == Err("DeserializeError", FALSE, "deserialize", d)

deserialize_doc_to(fits, d) ==
    IF fits
    THEN [ok |-> TRUE, obj |-> [of |-> d], err |-> NoError]
    ELSE [ok |-> FALSE, obj |-> [of |-> 0], err |-> DeserializeError(d)]

OkObj(o) == [tag |-> "Ok", obj |-> o, err |-> NoError]

\* The filter_map closure of stream_query_obj over a document.
ObjDropErrors(fits, d) ==
    LET r == deserialize_doc_to(fits, d)
    IN IF r.ok THEN <<OkObj(r.obj)>> ELSE <<>>

\* and_then(|doc| future::ready(deserialize_doc_to(&doc))) over an element
\* of stream_query_doc_with_errors: an Err element passes as it is.
ObjSurfaceErrors(fits, el) ==
    IF el.tag = "Ok"
    THEN LET r == deserialize_doc_to(fits, el.doc)
         IN IF r.ok THEN <<OkObj(r.obj)>> ELSE <<ErrItem(r.err)>>
    ELSE <<el>>

\* The consumer polls the stream returned by stream_query_obj once: the
\* filter_map over the stream of stream_query_doc.
stream_query_obj ==
    /\ pc = "streaming"
    /\ api = "stream_query_obj"
    /\ IF query_stream = <<>>
       THEN /\ pc' = "done"
            /\ UNCHANGED <<query_stream, output, retries>>
       ELSE IF EntryRetried(Head(query_stream), retries, max_retries)
       THEN /\ pc' = "attempt"
            /\ retries' = retries + 1
            /\ UNCHANGED <<query_stream, output>>
       ELSE LET docs == DropErrors(Head(query_stream))
            IN /\ output' = output \o
                     (IF docs = <<>> THEN <<>>
                      ELSE ObjDropErrors(Fits(schema, docs[1].doc), docs[1].doc))
               /\ query_stream' = Tail(query_stream)
               /\ UNCHANGED <<pc, retries>>
    /\ UNCHANGED <<api, selector_ok, max_retries, plan, rpc_calls,
                   established, served, collected, result, partVars, schema>>

\* The consumer polls the stream returned by stream_query_obj_with_errors:
\* the and_then over the stream of stream_query_doc_with_errors.
stream_query_obj_with_errors ==
    /\ pc = "streaming"
    /\ api = "stream_query_obj_with_errors"
    /\ IF query_stream = <<>>
       THEN /\ pc' = "done"
            /\ UNCHANGED <<query_stream, output, retries>>
       ELSE IF EntryRetried(Head(query_stream), retries, max_retries)
       THEN /\ pc' = "attempt"
            /\ retries' = retries + 1
            /\ UNCHANGED <<query_stream, output>>
       ELSE LET els == SurfaceErrors(Head(query_stream))
            IN /\ output' = output \o
                     (IF els = <<>> THEN <<>>
                      ELSE ObjSurfaceErrors(
                               els[1].tag = "Ok" /\ Fits(schema, els[1].doc),
                               els[1]))
               /\ query_stream' = Tail(query_stream)
               /\ UNCHANGED <<pc, retries>>
    /\ UNCHANGED <<api, selector_ok, max_retries, plan, rpc_calls,
                   established, served, collected, result, partVars, schema>>

\* ------------------------------------------------- cursor pagination stream
\* A page token is a string: the empty string, or the token the server gave
\* with page p, which asks for page p + 1. The token <<0>> of an earlier
\* pagination asks for page 1 as well.
PageToken(p) == <<p>>
PageNo(token) == IF token = <<>> THEN 1 ELSE token[1] + 1

\* params.page_token.clone().unwrap_or_default()
unwrap_or_default(opt) == IF opt = None THEN <<>> ELSE opt[1]

\* params.with_page_token(token)
with_page_token_Keep(old, token) == old

with_page_token(old, token) == Some(token)

\* The error of the failed request for page p.
PageError(p, retry) == Err("DatabaseError", retry, "page", <<0, p>>)

\* The answers of the server to the request for page p when c cursors have
\* been returned before: a failure, or some cursors and a next-page token.
PageResponses(p, c) ==
    {[ok |-> FALSE, partitions |-> <<>>, next_page_token |-> <<>>,
      err |-> PageError(p, r)] : r \in BOOLEAN}
    \cup
    {[ok |-> TRUE, partitions |-> [j \in 1..k |-> c + j], next_page_token |-> t,
      err |-> NoError] :
        k \in 0..(MaxCursors - c),
        t \in {<<>>} \cup (IF p < MaxPages THEN {PageToken(p)} ELSE {})}

\* The closure of the unfold: the item it yields for a response to the
\* request made from the state Some(token), and the next state.
UnfoldStep(token, resp) ==
    IF resp.ok
    THEN IF resp.next_page_token # <<>>
         THEN [item |-> [ok |-> TRUE, cursors |-> resp.partitions, err |-> NoError],
               state |-> Some(with_page_token(token, resp.next_page_token))]
         ELSE [item |-> [ok |-> TRUE, cursors |-> resp.partitions, err |-> NoError],
               state |-> None]
    ELSE [item |-> [ok |-> FALSE, cursors |-> <<>>, err |-> resp.err],
          state |-> None]

\* Elements of the cursor stream: Ok(cursor) or Err(err).
OkCursor(c) == [tag |-> "Ok", cursor |-> c, err |-> NoError]

\* The closure of the flat_map: the elements one item of the unfold becomes.
FlatMapPage_SkipsError(item) ==
    IF item.ok
    THEN [j \in 1..Len(item.cursors) |-> OkCursor(item.cursors[j])]
    ELSE <<>>

FlatMapPage(item) ==
    IF item.ok
    THEN [j \in 1..Len(item.cursors) |-> OkCursor(item.cursors[j])]
    ELSE <<ErrItem(item.err)>>

execCall == <<api, selector_ok, max_retries, plan, retries, rpc_calls,
              established, served, query_stream, collected, schema>>

partCall == <<parallelism, base, ppc, cursors, cursors_pairs, workers, queue,
              issued, presult, merged, typed, fallback>>

\* stream_partition_cursors_with_errors(params).await when the selector
\* cannot be encoded: try_into()? fails the establishing future.
partition_cursors_selector_fails ==
    /\ pc = "attempt"
    /\ api = CursorApi
    /\ ~part_selector_ok
    /\ result' = ResErr(ConfigError)
    /\ pc' = "done"
    /\ UNCHANGED <<execCall, partCall, output, part_selector_ok, page_token,
                   unfold_state, cursorLog>>

\* stream_partition_cursors_with_errors(params).await otherwise: Ok(stream),
\* the unfold in its initial state and nothing requested yet.
stream_partition_cursors_with_errors ==
    /\ pc = "attempt"
    /\ api = CursorApi
    /\ part_selector_ok
    /\ result' = ResStream
    /\ pc' = "streaming"
    /\ UNCHANGED <<execCall, partCall, output, part_selector_ok, page_token,
                   unfold_state, cursorLog>>

\* The consumer polls the stream and flat_map has no element of a page
\* left: it polls the unfold, which sends one partition_query request.
unfold_partition_query ==
    /\ pc = "streaming"
    /\ api = CursorApi
    /\ page_buf = <<>>
    /\ unfold_state # None
    /\ LET token == unwrap_or_default(unfold_state[1])
       IN \E resp \in PageResponses(PageNo(token), Len(output)) :
            LET step == UnfoldStep(unfold_state[1], resp)
            IN /\ requests' = Append(requests, token)
               /\ responses' = Append(responses, resp)
               /\ unfold_state' = step.state
               /\ page_buf' = FlatMapPage(step.item)
    /\ UNCHANGED <<execCall, partCall, pc, result, output, part_selector_ok,
                   page_token>>

\* flat_map yields the next element of the current page to the consumer.
flat_map_next ==
    /\ pc = "streaming"
    /\ api = CursorApi
    /\ page_buf # <<>>
    /\ output' = Append(output, Head(page_buf))
    /\ page_buf' = Tail(page_buf)
    /\ UNCHANGED <<execCall, partCall, pc, result, part_selector_ok, page_token,
                   unfold_state, requests, responses>>

\* The unfold has ended (state None) and no element is left: the stream ends.
cursor_stream_end ==
    /\ pc = "streaming"
    /\ api = CursorApi
    /\ page_buf = <<>>
    /\ unfold_state = None
    /\ pc' = "done"
    /\ UNCHANGED <<execCall, partCall, result, output, part_selector_ok,
                   page_token, unfold_state, cursorLog>>

Next ==
    \/ create_query_request_fails
    \/ stream_query_doc_with_retries
    \/ query_doc_with_retries
    \/ try_collect
    \/ stream_query_doc
    \/ stream_query_doc_with_errors
    \/ stream_query_obj
    \/ stream_query_obj_with_errors
    \/ partition_cursors_selector_fails
    \/ stream_partition_cursors_with_errors
    \/ unfold_partition_query
    \/ flat_map_next
    \/ cursor_stream_end

Spec == Init /\ [][Next]_vars

\* ------------------------------------------------ claims on the executors
Min(a, b) == IF a < b THEN a ELSE b

\* The number of leading invocations the server fails with a retry-eligible
\* DatabaseError.
LeadingRetryable ==
    CHOOSE k \in 0..Len(plan) :
        /\ \A i \in 1..k : plan[i] = "db_retry"
        /\ k = Len(plan) \/ plan[k + 1] # "db_retry"

IsSome(e) == e.tag = "Some"
IsErr(e) == e.tag = "Err"
NotNone(e) == e.tag # "None"

\* The entries of the response stream the adapter has pulled so far.
Pulled == SubSeq(served, 1, Len(served) - Len(query_stream))

\* The documents of s, in order.
DocsOf(s) ==
    LET sel == SelectSeq(s, IsSome)
    IN [i \in 1..Len(sel) |-> sel[i].doc]

\* s without its no-document entries, each survivor as an output element.
WithoutNone(s) ==
    LET sel == SelectSeq(s, NotNone)
    IN [i \in 1..Len(sel) |->
            IF sel[i].tag = "Some" THEN OkDoc(sel[i].doc) ELSE ErrItem(sel[i].err)]

\* s without its no-document and error entries.
OnlyDocs(s) ==
    LET sel == SelectSeq(s, IsSome)
    IN [i \in 1..Len(sel) |-> OkDoc(sel[i].doc)]

AllAttemptsRetryable ==
    api \in RunQueryApis /\ selector_ok /\ \A i \in 1..(max_retries + 1) : plan[i] = "db_retry"

\* C3: when every run_query invocation fails with a retry-eligible
\* DatabaseError, both executors issue the RPC exactly max_retries + 1 times
\* (never more while running) and return the error of the last invocation.
C3_ExhaustedRetries ==
    AllAttemptsRetryable =>
        /\ rpc_calls <= max_retries + 1
        /\ pc # "attempt"
            => /\ pc = "done"
               /\ rpc_calls = max_retries + 1
               /\ result = ResErr(RpcError("db_retry", max_retries + 1))

C3_Witness ==
    /\ AllAttemptsRetryable
    /\ api = "query_doc"
    /\ max_retries = MaxRetries
    /\ pc = "done"
    /\ rpc_calls = MaxRetries + 1
    /\ result.tag = "Err"

SucceedsAfterRetryable ==
    /\ selector_ok
    /\ LeadingRetryable < Len(plan)
    /\ plan[LeadingRetryable + 1] = "ok"

\* C4: when the first k invocations fail with a retry-eligible DatabaseError
\* and invocation k+1 would succeed, the RPC is issued exactly
\* min(k+1, max_retries+1) times; when k <= max_retries the call returns what
\* invocation k+1 responded (the stream; in batch mode its documents, or the
\* error of one of its entries) and none of the k earlier errors.
C4_RetryThenSuccess ==
    SucceedsAfterRetryable =>
        LET k == LeadingRetryable
        IN /\ rpc_calls <= Min(k + 1, max_retries + 1)
           /\ pc # "attempt" =>
                /\ rpc_calls = Min(k + 1, max_retries + 1)
                /\ k <= max_retries =>
                     /\ established = k + 1
                     /\ api # "query_doc" => result = ResStream
                     /\ api = "query_doc" /\ pc = "done" =>
                          IF \E i \in 1..Len(served) : IsErr(served[i])
                          THEN result.tag = "Err" /\ result.err.src = "item"
                          ELSE result = ResVec(DocsOf(served))
                /\ k > max_retries =>
                     result = ResErr(RpcError("db_retry", max_retries + 1))

C4_Witness ==
    /\ SucceedsAfterRetryable
    /\ LeadingRetryable = 1
    /\ max_retries = 1
    /\ api = "stream_query_doc_with_errors"
    /\ rpc_calls = 2
    /\ established = 2
    /\ result = ResStream

\* C5: an invocation that fails with a non-retry-eligible error (a
\* DatabaseError whose retry flag is false, or another error kind) is never
\* followed by another invocation, whatever max_retries is, and its error is
\* what the call returns; when it is the first invocation the RPC is issued
\* exactly once.
C5_NonRetryableOnce ==
    \A n \in 1..rpc_calls :
        plan[n] \in {"db_fatal", "other"} =>
            /\ rpc_calls = n
            /\ pc = "done"
            /\ result = ResErr(RpcError(plan[n], n))
            /\ n = 1 => rpc_calls = 1

C5_Witness ==
    /\ api \in RunQueryApis
    /\ selector_ok
    /\ max_retries = MaxRetries
    /\ plan[1] = "db_fatal"
    /\ rpc_calls = 1
    /\ pc = "done"
    /\ result = ResErr(Err("DatabaseError", FALSE, "rpc", 1))

\* C9: the output of stream_query_doc is, at every moment, exactly the
\* documents among the entries pulled so far, in their order: error entries
\* and no-document entries are removed and the sequence goes on after them.
C9_DropErrorsOutput ==
    (api = "stream_query_doc" /\ established > 0) =>
        /\ output = OnlyDocs(Pulled)
        /\ pc = "done" => output = OnlyDocs(served)

C9_Witness ==
    /\ api = "stream_query_doc"
    /\ pc = "done"
    /\ Len(served) = 3
    /\ served[1].tag = "Err"
    /\ served[2].tag = "None"
    /\ served[3].tag = "Some"
    /\ output = <<OkDoc(3)>>

\* C10: the output of stream_query_doc_with_errors is, at every moment, the
\* entries pulled so far with exactly the no-document entries removed: each
\* error entry is an error element at its place, each document an Ok element,
\* and the sequence goes on after an error element.
C10_SurfaceErrorsOutput ==
    (api = "stream_query_doc_with_errors" /\ established > 0) =>
        /\ output = WithoutNone(Pulled)
        /\ pc = "done" => output = WithoutNone(served)

C10_Witness ==
    /\ api = "stream_query_doc_with_errors"
    /\ pc = "done"
    /\ Len(served) = 3
    /\ served[1].tag = "Err"
    /\ served[2].tag = "None"
    /\ served[3].tag = "Some"
    /\ Len(output) = 2
    /\ output[1].tag = "Err"
    /\ output[2] = OkDoc(3)

\* The first error entry of s (s holds one).
FirstErr(s) == s[CHOOSE i \in 1..Len(s) :
                    IsErr(s[i]) /\ \A j \in 1..(i - 1) : ~IsErr(s[j])]

\* C13: query_doc is all-or-nothing. It returns Ok if and only if no entry
\* of the response stream is an error, and then the list is exactly the
\* documents in server order with the no-document entries removed; when an
\* entry is an error the whole call returns an error, the documents that
\* came before it are not returned.
C13_AllOrNothing ==
    (api = "query_doc" /\ established > 0 /\ pc = "done") =>
        /\ result.tag = "OkVec" <=> ~\E i \in 1..Len(served) : IsErr(served[i])
        /\ result.tag = "OkVec" => result.docs = DocsOf(served)
        /\ result.tag # "OkVec" =>
              /\ result = ResErr(FirstErr(served).err)
              /\ result.docs = <<>>

C13_Witness ==
    /\ api = "query_doc"
    /\ pc = "done"
    /\ Len(served) = 3
    /\ served[1].tag = "Some"
    /\ served[2].tag = "Err" /\ served[2].err.retry_possible
    /\ served[3].tag = "Some"
    /\ result = ResErr(served[2].err)

\* The error elements of an output sequence that are entry errors of the
\* response stream.
IsEntryError(el) == el.tag = "Err" /\ el.err.src = "item"
EntryErrors(s) ==
    LET sel == SelectSeq(s, IsErr)
    IN [i \in 1..Len(sel) |-> ErrItem(sel[i].err)]

\* C14: in streaming mode, once an invocation of run_query has returned the
\* response stream, the call issues no further run_query: the invocation
\* that established the stream is the last one. An error entry of the
\* stream, retry-eligible with attempts remaining or not, is handed to the
\* adapter (surfaced or dropped according to the mode) and never retried.
C14_NoRetryAfterEstablished ==
    (api \in StreamApis /\ established > 0) =>
        /\ rpc_calls = established
        /\ pc \in {"streaming", "done"}
        /\ result = ResStream
        /\ SelectSeq(output, IsEntryError) =
              (IF api \in {"stream_query_doc_with_errors",
                           "stream_query_obj_with_errors"}
               THEN EntryErrors(Pulled) ELSE <<>>)

C14_Witness ==
    /\ api = "stream_query_doc_with_errors"
    /\ max_retries = 1
    /\ retries = 0
    /\ established = 1
    /\ rpc_calls = 1
    /\ pc = "done"
    /\ Len(served) = 2
    /\ served[1].tag = "Err" /\ served[1].err.retry_possible
    /\ output = <<ErrItem(served[1].err), OkDoc(2)>>

\* C22: in batch mode the retry counter covers the run_query invocation
\* only. Once an invocation has returned a response, an error entry met
\* while draining it makes query_doc return that error at once, the entries
\* after it unread, with no further invocation, also when the error is
\* retry-eligible and fewer than max_retries retries have been used.
C22_DrainErrorFinal ==
    (api = "query_doc" /\ established > 0) =>
        /\ rpc_calls = established
        /\ established = LeadingRetryable + 1
        /\ retries = LeadingRetryable
        /\ pc \in {"collect", "done"}
        /\ \A i \in 1..Len(Pulled) : ~IsErr(Pulled[i])
        /\ (pc = "done" /\ query_stream # <<>>) =>
              /\ IsErr(Head(query_stream))
              /\ result = ResErr(Head(query_stream).err)
        /\ (pc = "done" /\ query_stream = <<>>) => result.tag = "OkVec"

C22_Witness ==
    /\ api = "query_doc"
    /\ max_retries = 1
    /\ retries = 0
    /\ plan[1] = "ok" /\ plan[2] = "ok"
    /\ rpc_calls = 1
    /\ pc = "done"
    /\ Len(served) = 3
    /\ served[1].tag = "Some"
    /\ served[2].tag = "Err" /\ served[2].err.retry_possible
    /\ Len(query_stream) = 2
    /\ result = ResErr(served[2].err)

\* -------------------------------------- claims on the cursor pagination
\* C17: a consistency selector that cannot be encoded is a configuration
\* error raised before any RPC and never retried: the executor returns the
\* error with zero run_query invocations, and the establishing future of
\* stream_partition_cursors_with_errors fails with zero partition_query
\* requests.
C17_SelectorError ==
    /\ (api \in RunQueryApis /\ ~selector_ok) =>
          /\ rpc_calls = 0
          /\ retries = 0
          /\ pc \in {"attempt", "done"}
          /\ pc = "done" => result = ResErr(ConfigError)
    /\ (api = CursorApi /\ ~part_selector_ok) =>
          /\ requests = <<>>
          /\ output = <<>>
          /\ pc \in {"attempt", "done"}
          /\ pc = "done" => result = ResErr(ConfigError)

C17_Witness ==
    /\ api = "stream_query_doc"
    /\ ~selector_ok
    /\ max_retries = 1
    /\ plan[1] = "ok"
    /\ pc = "done"
    /\ rpc_calls = 0
    /\ result = ResErr(ConfigError)

\* The elements a response stands for: its cursors in order, or its error.
PageElements(resp) ==
    IF resp.ok
    THEN [j \in 1..Len(resp.partitions) |-> OkCursor(resp.partitions[j])]
    ELSE <<ErrItem(resp.err)>>

RECURSIVE ConcatPages(_)
ConcatPages(rs) ==
    IF rs = <<>> THEN <<>> ELSE PageElements(Head(rs)) \o ConcatPages(Tail(rs))

\* What flat_map has produced so far: emitted or waiting to be emitted.
Produced == output \o page_buf

AllPagesOk == \A i \in DOMAIN responses : responses[i].ok

\* Request i + 1 carries the next-page token of response i, a request is
\* sent only after a response with a non-empty token, and without a failure
\* the elements are the cursors of the pages in order, the sequence ending
\* after the first response with an empty token.
PaginationProtocol ==
    /\ Len(responses) = Len(requests)
    /\ \A i \in 2..Len(requests) :
          /\ responses[i - 1].ok
          /\ responses[i - 1].next_page_token # <<>>
          /\ requests[i] = responses[i - 1].next_page_token
    /\ AllPagesOk => Produced = ConcatPages(responses)
    /\ (AllPagesOk /\ responses # <<>>
            /\ responses[Len(responses)].next_page_token = <<>>) =>
          unfold_state = None
    /\ (AllPagesOk /\ pc = "done" /\ result = ResStream) =>
          /\ responses # <<>>
          /\ responses[Len(responses)].next_page_token = <<>>
          /\ output = ConcatPages(responses)

\* C11 as stated: the first request carries an empty page token, whatever
\* page_token the caller put into the params.
C11_FirstTokenEmpty ==
    api = CursorApi =>
        /\ requests # <<>> => requests[1] = <<>>
        /\ PaginationProtocol

\* C11, amended: the first partition_query request carries the page_token
\* of the caller's params (the empty token when there is none), every later
\* request exactly the next-page token of the response before it; the
\* elements are the cursors of the pages in page order (a page without
\* cursors and with a token adds nothing and the stream goes on); after the
\* first response with an empty token its cursors are emitted, the sequence
\* ends and no request follows.
C11_Pagination ==
    api = CursorApi =>
        /\ requests # <<>> =>
              requests[1] = (IF page_token = None THEN <<>> ELSE page_token[1])
        /\ PaginationProtocol

C11_Witness ==
    /\ api = CursorApi
    /\ pc = "done"
    /\ page_token = None
    /\ requests = << <<>>, PageToken(1) >>
    /\ responses[1].ok /\ responses[1].partitions = <<>>
    /\ responses[2].ok /\ Len(responses[2].partitions) = 2
    /\ output = <<OkCursor(1), OkCursor(2)>>

\* C12: when the fetch of a page fails, the stream emits the cursors of the
\* earlier pages, then exactly one error element, then ends: the failed
\* request is not sent again and no request follows it, whether or not the
\* error is retry-eligible.
C12_PageFailure ==
    (api = CursorApi /\ ~AllPagesOk) =>
        LET n == Len(responses)
        IN /\ ~responses[n].ok
           /\ \A i \in 1..(n - 1) : responses[i].ok
           /\ Len(requests) = n
           /\ unfold_state = None
           /\ Produced = ConcatPages(SubSeq(responses, 1, n - 1))
                            \o <<ErrItem(responses[n].err)>>
           /\ pc = "done" => output = Produced

C12_Witness ==
    /\ api = CursorApi
    /\ pc = "done"
    /\ Len(responses) = 2
    /\ Len(responses[1].partitions) = 2
    /\ ~responses[2].ok
    /\ responses[2].err.retry_possible
    /\ Len(requests) = 2
    /\ output = <<OkCursor(1), OkCursor(2), ErrItem(PageError(2, TRUE))>>

\* ======================================================================
\* stream_partition_query_doc_with_errors
\* ======================================================================
\* Cursors are opaque: the n-th cursor the server returns is n. The bounds a
\* caller may have put into the base params are cursors of their own.
BaseParams == {Params(None, None), Params(Some(101), Some(102))}

\* What the server does with one run_query of a sub-query, and the entries
\* its response stream may hold.
PartOutcomes == {"ok", "db_retry", "db_fatal"}
PartEntryKinds == {"Some", "None", "ErrFatal"}

ConfigErrorAt(id) == Err("ConfigurationError", FALSE, "config", id)

PartInit ==
    /\ api = "stream_query_doc_with_errors"
    /\ selector_ok \in BOOLEAN
    /\ max_retries \in 0..MaxRetries
    /\ plan = <<>>
    /\ pc = "idle"
    /\ retries = 0
    /\ rpc_calls = 0
    /\ established = 0
    /\ served = <<>>
    /\ query_stream = <<>>
    /\ collected = <<>>
    /\ result = Pending
    /\ output = <<>>
    /\ parallelism \in 0..MaxParallelism
    /\ part_selector_ok \in BOOLEAN
    /\ base \in BaseParams
    /\ schema = "odd"
    /\ page_token = None
    /\ requests = <<>>
    /\ responses = <<>>
    /\ page_buf = <<>>
    /\ ppc = "discover"
    /\ unfold_state = Some(page_token)
    /\ cursors = <<>>
    /\ cursors_pairs = <<>>
    /\ workers = <<>>
    /\ queue = <<>>
    /\ issued = <<>>
    /\ presult = Pending
    /\ merged = <<>>
    /\ typed = <<>>
    /\ fallback = NoWorker

\* ------------------------------------------------------ cursor discovery
\* selector.try_into()? fails in stream_partition_cursors_with_errors: the
\* establishing future fails, and with it the partitioned call.
partition_selector_fails ==
    /\ ppc = "discover"
    /\ ~part_selector_ok
    /\ presult' = ResErr(ConfigErrorAt(<<0, 0>>))
    /\ ppc' = "failed"
    /\ UNCHANGED <<execOnly, session, inputs, cursorLog, typed, discovery, cursors_pairs,
                   workers, queue, issued, merged, fallback>>

\* try_collect polls the cursor stream: one partition_query request. An error
\* item ends try_collect and the whole call with that error.
partition_query ==
    /\ ppc = "discover"
    /\ part_selector_ok
    /\ unfold_state # None
    /\ \E resp \in PageResponses(PageNo(unwrap_or_default(unfold_state[1])),
                                  Len(cursors)) :
         LET step == UnfoldStep(unfold_state[1], resp)
         IN /\ unfold_state' = step.state
            /\ IF step.item.ok
               THEN /\ cursors' = cursors \o step.item.cursors
                    /\ UNCHANGED <<presult, ppc>>
               ELSE /\ presult' = ResErr(step.item.err)
                    /\ ppc' = "failed"
                    /\ UNCHANGED cursors
    /\ UNCHANGED <<execOnly, session, inputs, cursorLog, typed, cursors_pairs, workers, queue,
                   issued, merged, fallback>>

\* ------------------------------------------------------------ orchestrator
\* cursors_pairs: None, the cursors as Some, None.
BoundaryList(cs) == <<None>> \o [j \in 1..Len(cs) |-> Some(cs[j])] \o <<None>>

\* The worker of a range before for_each_concurrent has pulled its window.
Queued ==
    [st |-> "queued", retries |-> 0, params |-> Params(None, None),
     partition |-> FirestorePartition_new, served |-> <<>>, err |-> NoError]

\* try_collect returns its Vec when the cursor stream has ended: the unfold
\* is in state None.
CursorStreamEnded_AnyTime(state) == TRUE

CursorStreamEnded(state) == state = None

\* The cursor stream has ended: try_collect returns the cursors, and the
\* call branches on cursors.is_empty().
cursors_collected ==
    /\ ppc = "discover"
    /\ part_selector_ok
    /\ CursorStreamEnded(unfold_state)
    /\ IF cursors = <<>>
       THEN /\ ppc' = "fallback"
            /\ fallback' = [Queued EXCEPT !.st = "rpc", !.params = base]
            /\ issued' = Append(issued, base)
            /\ UNCHANGED <<cursors_pairs, workers>>
       ELSE /\ ppc' = "fanout"
            /\ cursors_pairs' = BoundaryList(cursors)
            /\ workers' = [i \in 1..(Len(cursors) + 1) |-> Queued]
            /\ UNCHANGED <<fallback, issued>>
    /\ UNCHANGED <<execOnly, session, inputs, cursorLog, typed, discovery, queue, presult, merged>>

\* stream_query_doc_with_errors(params).await for a sub-query: one invocation
\* of stream_query_doc_with_retries on worker w, the server answering o.
Establish(w, o, id) ==
    IF ~selector_ok
    THEN [w EXCEPT !.st = "failed", !.err = ConfigErrorAt(id)]
    ELSE IF o = "ok"
    THEN [w EXCEPT !.st = "drain", !.retries = 0]
    ELSE IF StreamRetryGuard(RpcError(o, id), w.retries, max_retries)
    THEN [w EXCEPT !.retries = @ + 1]
    ELSE [w EXCEPT !.st = "failed", !.err = RpcError(o, id), !.retries = 0]

\* An element of the merged stream: Ok((partition, doc)) or Err(err).
OkMsg(partition, doc) == [tag |-> "Ok", payload |-> <<partition, doc>>]
ErrMsg(err) == [tag |-> "Err", payload |-> <<err>>]

\* The fallback tags with the base bounds instead of an empty partition.
TagFallback_BaseBounds(el) ==
    IF el.tag = "Ok"
    THEN OkMsg([start_at |-> base.start_at, end_at |-> base.end_at], el.doc)
    ELSE ErrMsg(el.err)

\* .and_then(|doc| future::ready(Ok((FirestorePartition::new(), doc))))
TagFallback(el) ==
    IF el.tag = "Ok" THEN OkMsg(FirestorePartition_new, el.doc) ELSE ErrMsg(el.err)

\* doc_res.map(|doc| (partition.clone(), doc))
TagRange(partition, el) ==
    IF el.tag = "Ok" THEN OkMsg(partition, el.doc) ELSE ErrMsg(el.err)

MapSeq(s, Op(_)) == [j \in 1..Len(s) |-> Op(s[j])]

\* and_then(|(partition, doc)| future::ready(deserialize_doc_to(&doc)
\* .map(|obj| (partition, obj)))) over an element of the merged stream; the
\* document j of a range fits T according to j.
PartitionObj_DropsErr(sch, m) ==
    IF m.tag = "Ok"
    THEN LET r == deserialize_doc_to(Fits(sch, m.payload[2][2]), m.payload[2])
         IN IF r.ok THEN <<OkMsg(m.payload[1], r.obj)>> ELSE <<>>
    ELSE <<m>>

PartitionObj(sch, m) ==
    IF m.tag = "Ok"
    THEN LET r == deserialize_doc_to(Fits(sch, m.payload[2][2]), m.payload[2])
         IN IF r.ok THEN <<OkMsg(m.payload[1], r.obj)>> ELSE <<ErrMsg(r.err)>>
    ELSE <<m>>

\* tx.send(message) on the unbounded channel: the message joins the back.
tx_send_Front(q, msgs) == msgs \o q

tx_send(q, msgs) == q \o msgs

\* What the worker of a range sends when its stream cannot be established.
FailedRangeMessages_Silent(err) == <<>>

FailedRangeMessages(err) == <<ErrMsg(err)>>

\* The fallback branch: one invocation of run_query for the unpartitioned
\* query; a failure that is not retried is the result of the whole call.
fallback_run_query ==
    /\ ppc = "fallback"
    /\ \E o \in PartOutcomes :
         LET w == Establish(fallback, o, <<0, fallback.retries + 1>>)
         IN /\ fallback' = w
            /\ IF w.st = "failed"
               THEN presult' = ResErr(w.err) /\ ppc' = "failed"
               ELSE IF w.st = "drain"
               THEN presult' = ResStream /\ ppc' = "fallback_stream"
               ELSE UNCHANGED <<presult, ppc>>
    /\ UNCHANGED <<execOnly, session, inputs, cursorLog, typed, discovery, cursors_pairs,
                   workers, queue, issued, merged>>

\* The consumer polls the stream the fallback branch returned.
fallback_poll ==
    /\ ppc = "fallback_stream"
    /\ \/ /\ ppc' = "ended"
          /\ fallback' = [fallback EXCEPT !.st = "done"]
          /\ UNCHANGED <<merged, typed>>
       \/ /\ Len(fallback.served) < MaxEntries
          /\ \E k \in PartEntryKinds :
               LET e == Entry(k, <<0, Len(fallback.served) + 1>>)
                   tagged(el) == TagFallback(el)
                   msgs == MapSeq(SurfaceErrors(e), tagged)
               IN /\ fallback' = [fallback EXCEPT !.served = Append(@, e)]
                  /\ merged' = merged \o msgs
                  /\ typed' = typed \o
                       (IF msgs = <<>> THEN <<>> ELSE PartitionObj(schema, msgs[1]))
          /\ UNCHANGED ppc
    /\ UNCHANGED <<execOnly, session, inputs, cursorLog, discovery, cursors_pairs,
                   workers, queue, issued, presult>>

\* for_each_concurrent(Some(parallelism), ..): the limit it enforces. The
\* combinator keeps the limit as a non-zero number, so a limit of zero is no
\* limit at all.
ConcurrencyLimit_OneMore(p) == IF p = 0 THEN None ELSE Some(p + 1)

ConcurrencyLimit(p) == IF p = 0 THEN None ELSE Some(p)

\* The pool takes another future: no limit, or fewer futures than the limit.
HasSlot_BelowLast(limit, running) ==
    IF limit = None THEN TRUE ELSE limit[1] > running + 1

HasSlot(limit, running) == IF limit = None THEN TRUE ELSE limit[1] > running

\* The futures of the pool: the ranges started and not yet finished.
InFlight == {i \in DOMAIN workers : workers[i].st \in {"rpc", "drain"}}

\* first() and last() of a slice.
SliceFirst(sl) == IF sl = <<>> THEN None ELSE Some(sl[1])
SliceLast(sl) == IF sl = <<>> THEN None ELSE Some(sl[Len(sl)])

\* The generated mutable setters of an optional field: the field becomes the
\* Option they are given.
mopt_start_at(params, value) == [params EXCEPT !.start_at = value]

mopt_end_at(params, value) == [params EXCEPT !.end_at = value]

\* params_with_cursors for the window cursor_pair.
ParamsWithCursors(b, cursor_pair) ==
    LET p1 == IF SliceFirst(cursor_pair) # None
              THEN mopt_start_at(b, SliceFirst(cursor_pair)[1])
              ELSE b
    IN IF SliceLast(cursor_pair) # None
       THEN mopt_end_at(p1, SliceLast(cursor_pair)[1])
       ELSE p1

\* FirestorePartition::new().opt_start_at(..).opt_end_at(..)
PartitionOf_Whole(params) == FirestorePartition_new

PartitionOf(params) == [start_at |-> params.start_at, end_at |-> params.end_at]

\* The window for_each_concurrent pulls next: windows(2) in order.
NextWindow(i) ==
    /\ workers[i].st = "queued"
    /\ \A j \in 1..(i - 1) : workers[j].st # "queued"

\* for_each_concurrent pulls the next window while the pool is below the
\* limit, and creates the future of that range.
start_range ==
    /\ ppc = "fanout"
    /\ \E i \in DOMAIN workers :
         /\ NextWindow(i)
         /\ HasSlot(ConcurrencyLimit(parallelism), Cardinality(InFlight))
         /\ LET cursor_pair == SubSeq(cursors_pairs, i, i + 1)
                params_with_cursors == ParamsWithCursors(base, cursor_pair)
            IN /\ workers' = [workers EXCEPT ![i] =
                      [Queued EXCEPT !.st = "rpc",
                                     !.params = params_with_cursors,
                                     !.partition = PartitionOf(params_with_cursors)]]
               /\ issued' = Append(issued, params_with_cursors)
    /\ UNCHANGED <<execOnly, session, inputs, cursorLog, typed, discovery, cursors_pairs, ppc,
                   queue, presult, merged, fallback>>

\* The worker of range i: one invocation of run_query. When establishing the
\* stream fails for good, the worker sends the error and finishes.
range_run_query ==
    /\ ppc = "fanout"
    /\ \E i \in DOMAIN workers :
         /\ workers[i].st = "rpc"
         /\ \E o \in PartOutcomes :
              LET w == Establish(workers[i], o, <<i, workers[i].retries + 1>>)
              IN IF w.st = "failed"
                 THEN /\ workers' = [workers EXCEPT ![i] = [w EXCEPT !.st = "done"]]
                      /\ queue' = tx_send(queue, FailedRangeMessages(w.err))
                 ELSE /\ workers' = [workers EXCEPT ![i] = w]
                      /\ UNCHANGED queue
    /\ UNCHANGED <<execOnly, session, inputs, cursorLog, typed, discovery, cursors_pairs, ppc,
                   issued, presult, merged, fallback>>

\* Page entries served so far to the workers of the call.
RECURSIVE ServedTotal(_)
ServedTotal(i) ==
    IF i = 0 THEN 0 ELSE Len(workers[i].served) + ServedTotal(i - 1)

\* The worker of range i polls its result stream: the next element is sent
\* on the channel, or the stream has ended and the worker finishes.
range_forward ==
    /\ ppc = "fanout"
    /\ \E i \in DOMAIN workers :
         /\ workers[i].st = "drain"
         /\ \/ /\ workers' = [workers EXCEPT ![i].st = "done"]
               /\ UNCHANGED queue
            \/ /\ ServedTotal(Len(workers)) < MaxEntries
               /\ \E k \in PartEntryKinds :
                    LET e == Entry(k, <<i, Len(workers[i].served) + 1>>)
                        tagged(el) == TagRange(workers[i].partition, el)
                    IN /\ workers' = [workers EXCEPT ![i].served = Append(@, e)]
                       /\ queue' = tx_send(queue, MapSeq(SurfaceErrors(e), tagged))
    /\ UNCHANGED <<execOnly, session, inputs, cursorLog, typed, discovery, cursors_pairs, ppc,
                   issued, presult, merged, fallback>>

\* for_each_concurrent(..).await completes: every window pulled, the pool
\* empty.
for_each_concurrent_done_AllStarted(ws) ==
    \A i \in DOMAIN ws : ws[i].st # "queued"

for_each_concurrent_done(ws) ==
    \A i \in DOMAIN ws : ws[i].st = "done"

\* for_each_concurrent(..).await has completed: the call returns the
\* receiver as the merged stream, and tx is dropped with the call.
return_stream ==
    /\ ppc = "fanout"
    /\ for_each_concurrent_done(workers)
    /\ presult' = ResStream
    /\ ppc' = "returned"
    /\ UNCHANGED <<execOnly, session, inputs, cursorLog, typed, discovery, cursors_pairs,
                   workers, queue, issued, merged, fallback>>

\* The senders of the channel that are alive: tx, which the call owns until
\* it returns, and the clone each running worker owns until it finishes.
TxSenders_Kept ==
    1 + Cardinality(InFlight)

TxSenders ==
    (IF ppc = "fanout" THEN 1 ELSE 0) + Cardinality(InFlight)

\* The consumer polls the merged stream: the next message of the channel, or
\* its end once the channel is empty and every sender is gone. With the
\* channel empty and a sender alive the poll stays pending.
merged_poll ==
    /\ ppc = "returned"
    /\ queue = <<>> => TxSenders = 0
    /\ IF queue # <<>>
       THEN /\ merged' = Append(merged, Head(queue))
            /\ typed' = typed \o PartitionObj(schema, Head(queue))
            /\ queue' = Tail(queue)
            /\ UNCHANGED ppc
       ELSE /\ ppc' = "ended"
            /\ UNCHANGED <<merged, typed, queue>>
    /\ UNCHANGED <<execOnly, session, inputs, cursorLog, discovery, cursors_pairs,
                   workers, issued, presult, fallback>>

PartNext ==
    \/ partition_selector_fails
    \/ partition_query
    \/ cursors_collected
    \/ fallback_run_query
    \/ fallback_poll
    \/ start_range
    \/ range_run_query
    \/ range_forward
    \/ return_stream
    \/ merged_poll

PartSpec == PartInit /\ [][PartNext]_vars

\* The caller drops the merged stream it was given instead of polling it to
\* its end: the receiver is gone, and with it the messages still queued.
drop_stream ==
    /\ ppc = "returned"
    /\ ppc' = "dropped"
    /\ queue' = <<>>
    /\ UNCHANGED <<execOnly, session, inputs, cursorLog, typed, discovery,
                   cursors_pairs, workers, issued, presult, merged, fallback>>

\* A partitioned call whose caller may drop the stream.
DropNext == PartNext \/ drop_stream

DropSpec == PartInit /\ [][DropNext]_vars

\* A call of any entry point.
AllInit == Init \/ PartInit

AllNext == Next \/ PartNext

AllSpec == AllInit /\ [][AllNext]_vars

\* The executor polls every future that can make progress, the server
\* answers every request and ends every stream, and the consumer keeps
\* polling the stream it was given.
PartFairSpec == PartSpec /\ WF_vars(PartNext)

\* -------------------------------------------- claims on the orchestrator
\* Every message sent on the channel so far, in the order of the sends.
Sent == merged \o queue

\* The range whose worker produced a message.
Origin(m) == IF m.tag = "Ok" THEN m.payload[2][1] ELSE m.payload[1].n[1]

FromRange(s, i) == SelectSeq(s, LAMBDA m : Origin(m) = i)

\* The (i-1)-th cursor boundary: None, c1, .., cn, None.
Bound(i) ==
    IF i = 0 \/ i = Len(cursors) + 1 THEN None ELSE Some(cursors[i])

RangePartition(i) == [start_at |-> Bound(i - 1), end_at |-> Bound(i)]

\* The surface-errors stream of the sub-query of range i, as far as the
\* server has served it, each document with the partition of the range.
ExpectedFromRange(i) ==
    LET els == WithoutNone(workers[i].served)
    IN [j \in 1..Len(els) |->
            IF els[j].tag = "Ok"
            THEN OkMsg(RangePartition(i), els[j].doc)
            ELSE ErrMsg(els[j].err)]

\* The partitioned branch has been taken.
Partitioned == ppc \in {"fanout", "returned", "ended"} /\ cursors_pairs # <<>>

\* C1 as stated: whatever parallelism is, the range sub-queries in flight
\* never outnumber it.
C1_AnyParallelism ==
    Partitioned => Cardinality(InFlight) <= parallelism

\* C1, amended: for parallelism >= 1 the range sub-queries in flight (from
\* the first run_query of a worker, retries included, until its response
\* stream is drained) never outnumber parallelism.
C1_InFlightCap ==
    (Partitioned /\ parallelism >= 1) => Cardinality(InFlight) <= parallelism

C1_Witness ==
    /\ ppc = "fanout"
    /\ parallelism = 2
    /\ Len(workers) = 3
    /\ workers[1].st = "rpc" /\ workers[1].retries = 1
    /\ workers[2].st = "drain" /\ Len(workers[2].served) = 1
    /\ workers[3].st = "queued"

\* C2: n cursors give exactly the n+1 sub-queries (None,c1), (c1,c2), ..,
\* (cn,None), each issued once and none skipped, and every document of the
\* merged stream carries the partition whose bounds are those of the
\* sub-query that produced it.
C2_RangesAndTags ==
    Partitioned =>
        /\ Len(issued) <= Len(cursors) + 1
        /\ \A i \in 1..Len(issued) :
              /\ issued[i].start_at = Bound(i - 1)
              /\ issued[i].end_at = Bound(i)
        /\ ppc # "fanout" => Len(issued) = Len(cursors) + 1
        /\ \A j \in 1..Len(Sent) :
              Sent[j].tag = "Ok" =>
                  LET i == Origin(Sent[j])
                  IN /\ i \in 1..Len(issued)
                     /\ Sent[j].payload[1] = RangePartition(i)
                     /\ Sent[j].payload[1].start_at = issued[i].start_at
                     /\ Sent[j].payload[1].end_at = issued[i].end_at

C2_Witness ==
    /\ ppc = "ended"
    /\ cursors = <<1, 2>>
    /\ base.start_at = Some(101)
    /\ Len(issued) = 3
    /\ issued[2].start_at = Some(1) /\ issued[2].end_at = Some(2)
    /\ \E j \in 1..Len(merged) :
          /\ merged[j].tag = "Ok"
          /\ merged[j].payload[1] = [start_at |-> Some(1), end_at |-> Some(2)]
    /\ \E j \in 1..Len(merged) :
          /\ merged[j].tag = "Ok"
          /\ merged[j].payload[1] = [start_at |-> None, end_at |-> Some(1)]

\* The fallback branch has been taken.
FallbackTaken == fallback.st # "none"

\* The surface-errors stream of the unpartitioned query, every document with
\* a partition that has no bounds.
ExpectedFallback ==
    LET els == WithoutNone(fallback.served)
    IN [j \in 1..Len(els) |->
            IF els[j].tag = "Ok"
            THEN OkMsg([start_at |-> None, end_at |-> None], els[j].doc)
            ELSE ErrMsg(els[j].err)]

\* C6: when discovery ends with no cursor at all, the call issues exactly one
\* unpartitioned stream_query_doc_with_errors with the base params and no
\* range sub-query; its stream carries every document with a partition
\* without bounds and every item error in place.
C6_FallbackUnpartitioned ==
    /\ (ppc \notin {"discover", "failed"} /\ cursors = <<>>) => FallbackTaken
    /\ FallbackTaken =>
          /\ cursors = <<>>
          /\ issued = <<base>>
          /\ workers = <<>>
          /\ queue = <<>>
          /\ merged = ExpectedFallback
          /\ ppc \in {"fallback_stream", "ended"} => presult = ResStream

C6_Witness ==
    /\ ppc = "ended"
    /\ FallbackTaken
    /\ base.start_at = Some(101)
    /\ Len(fallback.served) = 3
    /\ fallback.served[1].tag = "Err"
    /\ fallback.served[2].tag = "None"
    /\ fallback.served[3].tag = "Some"
    /\ Len(merged) = 2
    /\ merged[2] = OkMsg([start_at |-> None, end_at |-> None], <<0, 3>>)

\* C7: at every moment, for every range whose stream was established, the
\* messages of that range in the channel and in the merged output are exactly
\* its surface-errors stream in server order: none lost, duplicated or
\* reordered, whatever the interleaving of the workers.
C7_PerPartitionOrder ==
    Partitioned =>
        \A i \in DOMAIN workers :
            workers[i].err = NoError =>
                /\ FromRange(Sent, i) = ExpectedFromRange(i)
                /\ ppc = "ended" => FromRange(merged, i) = ExpectedFromRange(i)

C7_Witness ==
    /\ ppc = "ended"
    /\ Len(merged) = 3
    /\ merged[1].tag = "Ok" /\ Origin(merged[1]) = 2
    /\ merged[2].tag = "Ok" /\ Origin(merged[2]) = 1
    /\ merged[3].tag = "Err" /\ Origin(merged[3]) = 2
    /\ Len(workers[2].served) = 2

\* The stream of range i could not be established.
RangeFailed(i) == workers[i].st = "done" /\ workers[i].err # NoError

\* C8 as stated: the one error element of a range whose stream could not be
\* established is tagged to that range.
C8_ErrorTagged ==
    Partitioned =>
        \A i \in DOMAIN workers :
            RangeFailed(i) =>
                /\ Len(FromRange(Sent, i)) = 1
                /\ \A j \in 1..Len(Sent) :
                      Origin(Sent[j]) = i =>
                          /\ Len(Sent[j].payload) = 2
                          /\ Sent[j].payload[1] = RangePartition(i)

\* C8, amended: a range whose stream could not be established (after its own
\* retries) contributes exactly one element, the error, which carries no
\* partition; every sibling range still runs and delivers all of its
\* elements, and the call returns a stream.
C8_RangeFailureIsolated ==
    Partitioned =>
        /\ \A i \in DOMAIN workers :
              RangeFailed(i) =>
                  /\ FromRange(Sent, i) = <<ErrMsg(workers[i].err)>>
                  /\ \A j \in 1..Len(Sent) :
                        Origin(Sent[j]) = i =>
                            /\ Sent[j].tag = "Err"
                            /\ Len(Sent[j].payload) = 1
        /\ ppc # "fanout" =>
              /\ presult = ResStream
              /\ Len(issued) = Len(workers)
              /\ \A i \in DOMAIN workers :
                    /\ workers[i].st = "done"
                    /\ ~RangeFailed(i) => FromRange(Sent, i) = ExpectedFromRange(i)
        /\ ppc = "ended" => queue = <<>>

C8_Witness ==
    /\ ppc = "ended"
    /\ presult = ResStream
    /\ Len(workers) = 3
    /\ RangeFailed(2)
    /\ workers[2].err = RpcError("db_retry", <<2, 2>>)
    /\ Len(workers[1].served) = 1 /\ workers[1].served[1].tag = "Some"
    /\ Len(workers[3].served) = 2 /\ workers[3].served[2].tag = "Some"
    /\ Len(merged) = 4

\* ------------------------------------- claims on the typed-object streams
FitsSchema(e) == e.tag = "Some" /\ Fits(schema, e.doc)

\* The objects of the documents of s that deserialize, in order.
ExpectedObjDrop(s) ==
    LET sel == SelectSeq(s, FitsSchema)
    IN [i \in 1..Len(sel) |-> OkObj([of |-> sel[i].doc])]

\* s without its no-document entries: an object for a document that
\* deserializes, an error element for one that does not and for an error.
ExpectedObjSurface(s) ==
    LET sel == SelectSeq(s, NotNone)
    IN [i \in 1..Len(sel) |->
            IF sel[i].tag = "Some"
            THEN IF Fits(schema, sel[i].doc)
                 THEN OkObj([of |-> sel[i].doc])
                 ELSE ErrItem(DeserializeError(sel[i].doc))
            ELSE ErrItem(sel[i].err)]

\* C15: in typed-object streaming, stream_query_obj removes a document that
\* fails deserialization and keeps the others in order.
\* stream_query_obj_with_errors and stream_partition_query_obj_with_errors
\* turn it into one error element at the place of the document, and the
\* elements after it are still emitted.
C15_TypedStreams ==
    /\ (api = "stream_query_obj" /\ established > 0) =>
          /\ output = ExpectedObjDrop(Pulled)
          /\ pc = "done" => output = ExpectedObjDrop(served)
    /\ (api = "stream_query_obj_with_errors" /\ established > 0) =>
          /\ output = ExpectedObjSurface(Pulled)
          /\ pc = "done" => output = ExpectedObjSurface(served)
    /\ Len(typed) = Len(merged)
    /\ \A j \in 1..Len(merged) :
          IF merged[j].tag = "Ok"
          THEN IF Fits(schema, merged[j].payload[2][2])
               THEN typed[j] = OkMsg(merged[j].payload[1],
                                     [of |-> merged[j].payload[2]])
               ELSE typed[j] = ErrMsg(DeserializeError(merged[j].payload[2]))
          ELSE typed[j] = merged[j]

C15_Witness ==
    /\ ppc = "ended"
    /\ Len(cursors) = 1
    /\ Len(typed) = 3
    /\ typed[1].tag = "Ok" /\ typed[1].payload[2] = [of |-> <<1, 1>>]
    /\ typed[2] = ErrMsg(DeserializeError(<<1, 2>>))
    /\ typed[3].tag = "Ok" /\ typed[3].payload[2] = [of |-> <<1, 3>>]

\* ------------------------------------------ claims on the range params
\* C18 as stated: the params of the sub-query of range (lo, hi) are the base
\* params with start_at replaced by lo only when lo is present and end_at by
\* hi only when hi is present; the other fields, and a bound of the base on
\* a side whose boundary is absent, are unchanged. The k-th call issued is
\* that of range k. (The setters are given the boundary as an Option and
\* store it, so an absent boundary clears the bound of the base.)
C18_BaseBoundsKept ==
    Partitioned =>
        \A k \in 1..Len(issued) :
            /\ issued[k].rest = base.rest
            /\ issued[k].start_at =
                  (IF Bound(k - 1) # None THEN Bound(k - 1) ELSE base.start_at)
            /\ issued[k].end_at =
                  (IF Bound(k) # None THEN Bound(k) ELSE base.end_at)

\* C20: no run_query is issued before the cursor discovery has finished
\* (the last partition_query response received); and when the fetch of a
\* cursor page fails, the call returns that error and issues no run_query
\* at all, also when earlier pages yielded cursors.
C20_DiscoveryFirst ==
    /\ (issued # <<>> \/ workers # <<>> \/ fallback # NoWorker) =>
          /\ unfold_state = None
          /\ ppc \notin {"discover"}
          /\ presult.err.src # "page"
    /\ (ppc = "failed" /\ presult.err.src = "page") =>
          /\ presult.tag = "Err"
          /\ presult.err.kind = "DatabaseError"
          /\ issued = <<>>
          /\ workers = <<>>
          /\ fallback = NoWorker
          /\ queue = <<>>
          /\ merged = <<>>

C20_Witness ==
    /\ ppc = "failed"
    /\ cursors = <<1>>
    /\ presult = ResErr(PageError(2, TRUE))
    /\ issued = <<>>

\* ------------------------------------------ claims on the fan-in channel
\* The call is over: its stream has ended, or it returned an error.
PartDone == ppc \in {"ended", "failed"}

\* The elements the worker of range i has pushed to the channel.
Pushed(i) ==
    IF RangeFailed(i) THEN <<ErrMsg(workers[i].err)>> ELSE ExpectedFromRange(i)

\* C16: the merged stream ends only after every range worker has finished
\* and every element pushed to the channel has been delivered; and, every
\* sub-query stream being finite, the merged sequence eventually ends.
C16_MergedEnds ==
    /\ [](Partitioned /\ ppc = "ended" =>
            /\ \A i \in DOMAIN workers : workers[i].st = "done"
            /\ Len(workers) = Len(cursors) + 1
            /\ queue = <<>>
            /\ \A i \in DOMAIN workers :
                  FromRange(merged, i) = Pushed(i))
    /\ <>PartDone

C16_Witness ==
    /\ ppc = "ended"
    /\ Len(workers) = 2
    /\ Len(workers[1].served) = 1
    /\ Len(workers[2].served) = 2
    /\ Len(merged) = 3

\* The worker of range i waits for for_each_concurrent to pull its window.
RangeQueued(i) ==
    ppc = "fanout" /\ i \in DOMAIN workers /\ workers[i].st = "queued"

\* The worker of range i has been started.
RangeStarted(i) == i \in DOMAIN workers /\ workers[i].st # "queued"

\* C19: for parallelism >= 1, however many ranges there are, every range
\* that waits is eventually started, every running sub-query finishing in
\* the end: no range is starved or dropped, also when ranges before it
\* failed; and when the call returns, every range has been issued once.
C19_NoStarvation ==
    /\ (parallelism >= 1 /\ \E i \in DOMAIN workers : RangeQueued(i))
          ~> (\A i \in DOMAIN workers : RangeStarted(i))
    /\ []((Partitioned /\ ppc # "fanout") =>
            /\ Len(issued) = Len(cursors) + 1
            /\ \A i \in DOMAIN workers : workers[i].st = "done")

C19_Witness ==
    /\ ppc = "fanout"
    /\ parallelism = 1
    /\ Len(workers) = 3
    /\ RangeFailed(1)
    /\ workers[2].st = "done" /\ Len(workers[2].served) = 1
    /\ workers[3].st = "drain"

\* ------------------------------------------- claims on the call's return
\* C21: in the partitioned branch the call hands the merged stream to the
\* caller only after every range worker has run to completion: when it
\* returns no sub-query is in flight and no sender is left, the channel holds
\* every element of every range (no send was lost, the receiver outliving
\* every send), and the workers are as they were whether the caller polls
\* the stream or drops it.
C21_ReturnAfterWorkers ==
    (cursors_pairs # <<>> /\ ppc \in {"returned", "ended", "dropped"}) =>
        /\ presult = ResStream
        /\ InFlight = {}
        /\ TxSenders = 0
        /\ Len(workers) = Len(cursors) + 1
        /\ Len(issued) = Len(workers)
        /\ \A i \in DOMAIN workers :
              /\ workers[i].st = "done"
              /\ ppc # "dropped" => FromRange(Sent, i) = Pushed(i)
              /\ (ppc = "returned" /\ merged = <<>>) =>
                    FromRange(queue, i) = Pushed(i)

C21_Witness ==
    /\ ppc = "dropped"
    /\ Len(workers) = 2
    /\ Len(workers[1].served) = 2
    /\ RangeFailed(2)
    /\ Len(merged) = 1
    /\ queue = <<>>
====
